---- MODULE Spec2Model ----
(***************************************************************************)
(* A model of the Activity Suggester: the Streamlit script of src/app.py   *)
(* (one recommendation cycle per script run, the button handlers) and the  *)
(* helpers of src/utils.py it calls (the preference store, choose_place,   *)
(* the keyword extractors).                                                *)
(*                                                                         *)
(* Conventions.                                                            *)
(*  - A key of st.session_state that may be missing is a sequence of       *)
(*    length at most one: <<>> when the key is absent, <<v>> when it holds *)
(*    v.  Python's None is the string NoneVal.                             *)
(*  - Preference scores are kept in hundredths: 50 is 0.5, 5 is 0.05.      *)
(*  - A text is a sequence of one-character strings.                       *)
(***************************************************************************)
EXTENDS Integers, Sequences, FiniteSets, TLC

VARIABLES
    user_preferences,   \* st.session_state.user_preferences (optional)
    fb_prev,            \* ghost: user_preferences before the last feedback call
    fb_call,            \* ghost: the last feedback call, <<>> or <<[kind, item]>>
    fb_count,           \* ghost: feedback calls made so far
    previous_place_id,  \* st.session_state.previous_place_id (optional)
    place_list,         \* the candidate list handed to choose_place
    cp_last,            \* ghost: the last choose_place call, <<>> or <<call>>
    cp_prev,            \* ghost: what the choose_place call before it returned
    chain_run,          \* ghost: the last run of the image chain, <<>> or <<run>>
    session_state,      \* the other keys of st.session_state, each optional
    last_run,           \* ghost: what the last script run did
    ti_last,            \* ghost: the last top_activity_interest_llm call
    ti_prev,            \* ghost: what the call before it returned, same user
    kw_run              \* ghost: the last extract_main_keywords call

prefVars == <<user_preferences, fb_prev, fb_call, fb_count>>

placeVars == <<previous_place_id, place_list, cp_last, cp_prev>>

appVars == <<session_state, last_run>>

helperVars == <<ti_last, ti_prev, kw_run>>

vars == <<user_preferences, fb_prev, fb_call, fb_count,
          previous_place_id, place_list, cp_last, cp_prev, chain_run,
          session_state, last_run, ti_last, ti_prev, kw_run>>

NoneVal == "None"

Min(a, b) == IF a <= b THEN a ELSE b
Max(a, b) == IF a >= b THEN a ELSE b


(***************************************************************************)
(* Texts: Python str as a sequence of one-character strings, with the      *)
(* str methods the program applies to the collaborators' replies.          *)
(***************************************************************************)

UpperCase == <<"A", "B", "C", "D", "E", "F", "G", "H", "I", "J", "K", "L", "M",
               "N", "O", "P", "Q", "R", "S", "T", "U", "V", "W", "X", "Y", "Z">>
LowerCase == <<"a", "b", "c", "d", "e", "f", "g", "h", "i", "j", "k", "l", "m",
               "n", "o", "p", "q", "r", "s", "t", "u", "v", "w", "x", "y", "z">>
Digits == {"0", "1", "2", "3", "4", "5", "6", "7", "8", "9"}
Whitespace == {" ", "\n", "\t"}

Range(seq) == {seq[i] : i \in DOMAIN seq}

IsUpper(ch) == ch \in Range(UpperCase)
IsAlpha(ch) == ch \in Range(UpperCase) \cup Range(LowerCase)

\* str.lower() on one character.
LowerChar(ch) ==
    IF IsUpper(ch)
    THEN LowerCase[CHOOSE i \in DOMAIN UpperCase : UpperCase[i] = ch]
    ELSE ch

\* str.lower()
Lower(text) == [i \in DOMAIN text |-> LowerChar(text[i])]

\* str.strip(): drops leading and trailing whitespace.
Strip(text) ==
    LET keep == {i \in DOMAIN text : text[i] \notin Whitespace}
    IN  IF keep = {} THEN <<>>
        ELSE LET lo == CHOOSE i \in keep : \A j \in keep : i <= j
                 hi == CHOOSE i \in keep : \A j \in keep : i >= j
             IN  SubSeq(text, lo, hi)

\* needle in text (substring test).
Contains(text, needle) ==
    \E i \in 0..(Len(text) - Len(needle)) :
        \A j \in 1..Len(needle) : text[i + j] = needle[j]

(***************************************************************************)
(* The preference store: utils.py, get_user_preferences_db and             *)
(* update_preferences_from_feedback.                                       *)
(***************************************************************************)

\* The category keys get_user_preferences_db creates.
Categories == {"food", "travel", "shopping", "gaming", "news"}

InitialScore == 50    \* 0.5
LikeStep == 10        \* + 0.1
DislikeStep == 10     \* - 0.1
ViewStep == 5         \* + 0.05
ScoreMax == 100       \* 1.0
ScoreMin == 10        \* 0.1
MaxHistory == 20      \* liked_places / disliked_places keep the last 20

DefaultPreferences ==
    [category_preferences |-> [c \in Categories |-> InitialScore],
     liked_places |-> <<>>,
     disliked_places |-> <<>>]

\* get_user_preferences_db: creates the default profile when the key is
\* missing, and returns the stored profile.
get_user_preferences_db(stored) ==
    IF stored = <<>> THEN DefaultPreferences ELSE stored[1]

\* seq[-n:]
LastN(seq, n) ==
    IF Len(seq) <= n THEN seq ELSE SubSeq(seq, Len(seq) - n + 1, Len(seq))

\* Mutant: the trim keeps the oldest 20 entries (seq[:20]).
TrimHistoryOldest(seq) ==
    IF Len(seq) > MaxHistory THEN SubSeq(seq, 1, MaxHistory) ELSE seq

\* The trim at the end of update_preferences_from_feedback.
TrimHistory(seq) ==
    IF Len(seq) > MaxHistory THEN LastN(seq, MaxHistory) ELSE seq

\* Mutant: the like forgets the upper clamp.
LikeScoreUnclamped(s) == s + LikeStep

LikeScore(s) == Min(ScoreMax, s + LikeStep)
DislikeScore(s) == Max(ScoreMin, s - DislikeStep)
ViewScore(s) == Min(ScoreMax, s + ViewStep)

\* The score a feedback of this type gives a category that held s.
NewScore(feedback_type, s) ==
    CASE feedback_type = "like" -> LikeScore(s)
      [] feedback_type = "dislike" -> DislikeScore(s)
      [] feedback_type = "view_details" -> ViewScore(s)
      [] OTHER -> s

\* Mutant: an unknown category is added with the initial score.
BumpCategoryAdds(scores, category, feedback_type) ==
    [c \in DOMAIN scores \cup {category} |->
        IF c \in DOMAIN scores
        THEN IF c = category THEN NewScore(feedback_type, scores[c])
             ELSE scores[c]
        ELSE InitialScore]

\* prefs["category_preferences"][category] = ..., done only when category
\* is a key of the scores.
BumpCategory(scores, category, feedback_type) ==
    IF category \in DOMAIN scores
    THEN [scores EXCEPT ![category] = NewScore(feedback_type, scores[category])]
    ELSE scores

\* update_preferences_from_feedback(feedback_type, item_data): the profile
\* stored at the end of the call.
update_preferences_from_feedback(stored, feedback_type, item_data) ==
    LET prefs == get_user_preferences_db(stored)
        category == item_data.type
        liked == IF feedback_type = "like"
                 THEN Append(prefs.liked_places, item_data)
                 ELSE prefs.liked_places
        disliked == IF feedback_type = "dislike"
                    THEN Append(prefs.disliked_places, item_data)
                    ELSE prefs.disliked_places
    IN  [category_preferences |->
             BumpCategory(prefs.category_preferences, category, feedback_type),
         liked_places |-> TrimHistory(liked),
         disliked_places |-> TrimHistory(disliked)]



(***************************************************************************)
(* The keyword extractors: utils.py, extract_main_keywords and             *)
(* extract_keywords_from_prompt.                                           *)
(***************************************************************************)

food_keywords ==
    << <<"d", "o", "s", "a">>,
       <<"c", "o", "o", "k", "i", "n", "g">>,
       <<"b", "a", "k", "i", "n", "g">>,
       <<"f", "o", "o", "d">>,
       <<"r", "e", "c", "i", "p", "e">>,
       <<"c", "u", "i", "s", "i", "n", "e">>,
       <<"d", "i", "s", "h">>,
       <<"m", "e", "a", "l">>,
       <<"r", "e", "s", "t", "a", "u", "r", "a", "n", "t">>,
       <<"c", "a", "f", "Ã", "©">>,
       <<"b", "a", "k", "e", "r", "y">>,
       <<"p", "i", "z", "z", "a">>,
       <<"b", "u", "r", "g", "e", "r">>,
       <<"p", "a", "s", "t", "a">>,
       <<"s", "u", "s", "h", "i">>,
       <<"c", "u", "r", "r", "y">>,
       <<"b", "r", "e", "a", "k", "f", "a", "s", "t">>,
       <<"l", "u", "n", "c", "h">>,
       <<"d", "i", "n", "n", "e", "r">>,
       <<"s", "n", "a", "c", "k">>,
       <<"d", "e", "s", "s", "e", "r", "t">>,
       <<"c", "o", "f", "f", "e", "e">>,
       <<"t", "e", "a">>,
       <<"s", "m", "o", "o", "t", "h", "i", "e">>,
       <<"c", "o", "c", "k", "t", "a", "i", "l">>,
       <<"p", "a", "s", "t", "a">>,
       <<"t", "r", "u", "f", "f", "l", "e", "s">> >>

activity_keywords ==
    << <<"y", "o", "g", "a">>,
       <<"m", "e", "d", "i", "t", "a", "t", "i", "o", "n">>,
       <<"p", "a", "i", "n", "t", "i", "n", "g">>,
       <<"d", "r", "a", "w", "i", "n", "g">>,
       <<"a", "r", "t">>,
       <<"c", "r", "a", "f", "t">>,
       <<"r", "e", "a", "d", "i", "n", "g">>,
       <<"b", "o", "o", "k">>,
       <<"g", "a", "m", "e">>,
       <<"g", "a", "m", "i", "n", "g">>,
       <<"m", "o", "v", "i", "e">>,
       <<"f", "i", "l", "m">>,
       <<"m", "u", "s", "i", "c">>,
       <<"d", "a", "n", "c", "e">>,
       <<"w", "o", "r", "k", "o", "u", "t">>,
       <<"e", "x", "e", "r", "c", "i", "s", "e">>,
       <<"p", "o", "t", "t", "e", "r", "y">>,
       <<"c", "h", "e", "s", "s">>,
       <<"b", "o", "a", "r", "d", " ", "g", "a", "m", "e">>,
       <<"p", "u", "z", "z", "l", "e">>,
       <<"k", "n", "i", "t", "t", "i", "n", "g">>,
       <<"p", "h", "o", "t", "o", "g", "r", "a", "p", "h", "y">>,
       <<"b", "a", "k", "i", "n", "g">>,
       <<"c", "o", "o", "k", "i", "n", "g">> >>

all_keywords == food_keywords \o activity_keywords

\* "indoor activity"
IndoorActivity ==
    <<"i", "n", "d", "o", "o", "r", " ", "a", "c", "t", "i", "v", "i", "t",
      "y">>

MinWordLen == 4       \* [A-Za-z]{4,}
MinKeywordLen == 3    \* len(keyword.strip()) < 3, len(main_keyword) >= 3
MaxKeywords == 3      \* prompt.split()[:3]

\* Mutant: only letters count as word characters.
IsWordCharLetters(ch) == IsAlpha(ch)

\* A character the pattern's \b counts as part of a word.
IsWordChar(ch) == IsAlpha(ch) \/ ch \in Digits \/ ch = "_"

\* max(seq, key=len): the first element of the greatest length.
LongestFirst(seq) ==
    seq[CHOOSE i \in DOMAIN seq :
            /\ \A j \in DOMAIN seq : Len(seq[j]) <= Len(seq[i])
            /\ \A j \in 1..(i - 1) : Len(seq[j]) < Len(seq[i])]

\* [keyword for keyword in all_keywords if keyword in text_lower]
MatchingKeywords(text_lower, keywords) ==
    SelectSeq(keywords, LAMBDA keyword : Contains(text_lower, keyword))

\* text[i..j] is a match of \b[A-Za-z]{4,}\b: letters only, at least four,
\* with no word character right before or right after.
IsWordMatch(text, i, j) ==
    /\ j - i + 1 >= MinWordLen
    /\ \A k \in i..j : IsAlpha(text[k])
    /\ i = 1 \/ ~IsWordChar(text[i - 1])
    /\ j = Len(text) \/ ~IsWordChar(text[j + 1])

\* re.findall(r'\b[A-Za-z]{4,}\b', text) from position i on.
RECURSIVE FindWordsFrom(_, _)
FindWordsFrom(text, i) ==
    IF i > Len(text) THEN <<>>
    ELSE LET ends == {j \in i..Len(text) : IsWordMatch(text, i, j)}
         IN  IF ends = {} THEN FindWordsFrom(text, i + 1)
             ELSE LET j == CHOOSE e \in ends : TRUE
                  IN  <<SubSeq(text, i, j)>> \o FindWordsFrom(text, j + 1)

\* extract_main_keywords(text)
extract_main_keywords(text) ==
    IF text = <<>> THEN IndoorActivity
    ELSE LET matches == MatchingKeywords(Lower(text), all_keywords)
             words == FindWordsFrom(text, 1)
         IN  IF matches # <<>> THEN LongestFirst(matches)
             ELSE IF words # <<>> THEN LongestFirst(words)
             ELSE IndoorActivity

\* str.split(): the maximal runs of non-whitespace characters; cur is the
\* run being read.
RECURSIVE SplitWords(_, _)
SplitWords(text, cur) ==
    IF text = <<>> THEN (IF cur = <<>> THEN <<>> ELSE <<cur>>)
    ELSE IF Head(text) \in Whitespace
    THEN (IF cur = <<>> THEN <<>> ELSE <<cur>>) \o SplitWords(Tail(text), <<>>)
    ELSE SplitWords(Tail(text), Append(cur, Head(text)))

Split(text) == SplitWords(text, <<>>)

\* extract_keywords_from_prompt(prompt): the name openai is not defined in
\* utils.py, so the call in the try block raises NameError on every call
\* and the handler returns prompt.split()[:3].
extract_keywords_from_prompt(prompt) ==
    SubSeq(Split(prompt), 1, Min(MaxKeywords, Len(Split(prompt))))


(***************************************************************************)
(* The image fallback chain of the indoor flow: app.py lines 136-186, with *)
(* utils.py fetch_image_for_keyword.                                       *)
(*                                                                         *)
(* An image service does one of three things on a query: "raise", "none"   *)
(* (no image found) or "url".  A url is <<[source, query]>>, naming the    *)
(* service and the keyword that produced it; None is <<>>.  The chain's    *)
(* trace lists the queries made, in order, with what each did.             *)
(***************************************************************************)

ImageOutcomes == {"raise", "none", "url"}

\* The category names as texts (the interest is used as a search keyword).
TextOf(category) ==
    CASE category = "food" -> <<"f", "o", "o", "d">>
      [] category = "travel" -> <<"t", "r", "a", "v", "e", "l">>
      [] category = "news" -> <<"n", "e", "w", "s">>
      [] category = "shopping" -> <<"s", "h", "o", "p", "p", "i", "n", "g">>
      [] category = "gaming" -> <<"g", "a", "m", "i", "n", "g">>
      [] category = "activity" -> <<"a", "c", "t", "i", "v", "i", "t", "y">>

\* What a fetch returns or raises.
Fetched(raised, url) == [raised |-> raised, url |-> url]

\* fetch_image_for_keyword(keyword, key), gmaps being what the places
\* search does: an error there is re-raised (ImageError, then APIError by
\* safe_api_call); no result with photos gives None.
fetch_image_for_keyword(keyword, gmaps) ==
    IF keyword = <<>> THEN Fetched(FALSE, <<>>)
    ELSE CASE gmaps = "raise" -> Fetched(TRUE, <<>>)
           [] gmaps = "none" -> Fetched(FALSE, <<>>)
           [] gmaps = "url" ->
                Fetched(FALSE, <<[source |-> "places", query |-> keyword]>>)

\* fetch_unsplash_image(keyword): the generic image search.
fetch_unsplash_image(keyword, unsplash) ==
    CASE unsplash = "raise" -> Fetched(TRUE, <<>>)
      [] unsplash = "none" -> Fetched(FALSE, <<>>)
      [] unsplash = "url" ->
           Fetched(FALSE, <<[source |-> "search", query |-> keyword]>>)

\* One entry of the trace.
Query(step, query, outcome) == [step |-> step, query |-> query, outcome |-> outcome]

\* The chain's result: image_url, main_keyword (<<>> for None or <<kw>>),
\* the trace, and whether the handler of line 183 ended the chain.
ChainResult(image_url, main_keyword, trace, aborted) ==
    [image_url |-> image_url, main_keyword |-> main_keyword,
     trace |-> trace, aborted |-> aborted]

\* Step 1, lines 145-160: the loop over the extracted keywords from
\* position i on; a raising fetch is caught inside the loop.
RECURSIVE KeywordLoop(_, _, _, _)
KeywordLoop(keywords, gm, i, trace) ==
    IF i > Len(keywords) THEN ChainResult(<<>>, <<>>, trace, FALSE)
    ELSE IF keywords[i] = <<>> \/ Len(Strip(keywords[i])) < MinKeywordLen
    THEN KeywordLoop(keywords, gm, i + 1, trace)
    ELSE LET got == fetch_image_for_keyword(keywords[i], gm[i])
             seen == Append(trace, Query(1, keywords[i], gm[i]))
         IN  IF ~got.raised /\ got.url # <<>>
             THEN ChainResult(got.url, <<keywords[i]>>, seen, FALSE)
             ELSE KeywordLoop(keywords, gm, i + 1, seen)

\* Mutant: step 4 runs whether or not an image was found.
NeedsLastResortAlways(image_url) == TRUE

\* Line 178: if not image_url.
NeedsLastResort(image_url) == image_url = <<>>

\* Mutant: step 4 keeps the keyword of the earlier steps.
LastResortKeepsKeyword(c, top_interest, un) ==
    IF c.image_url # <<>> THEN c
    ELSE LET got == fetch_unsplash_image(TextOf(top_interest), un[2])
             seen == Append(c.trace, Query(4, TextOf(top_interest), un[2]))
         IN  IF got.raised
             THEN ChainResult(<<>>, <<TextOf(top_interest)>>, seen, TRUE)
             ELSE ChainResult(got.url, c.main_keyword, seen, FALSE)

\* Step 4, lines 178-181: the interest itself as the keyword.
LastResort(c, top_interest, un) ==
    IF ~NeedsLastResort(c.image_url) THEN c
    ELSE LET got == fetch_unsplash_image(TextOf(top_interest), un[2])
             seen == Append(c.trace, Query(4, TextOf(top_interest), un[2]))
         IN  IF got.raised
             THEN ChainResult(<<>>, <<TextOf(top_interest)>>, seen, TRUE)
             ELSE ChainResult(got.url, <<TextOf(top_interest)>>, seen, FALSE)

\* Step 3, lines 173-175: the generic search with the extracted keyword.
DirectSearch(c, top_interest, un) ==
    IF ~(c.image_url = <<>> /\ c.main_keyword # <<>> /\ c.main_keyword[1] # <<>>)
    THEN LastResort(c, top_interest, un)
    ELSE LET got == fetch_unsplash_image(c.main_keyword[1], un[1])
             seen == Append(c.trace, Query(3, c.main_keyword[1], un[1]))
         IN  IF got.raised
             THEN ChainResult(<<>>, <<TextOf(top_interest)>>, seen, TRUE)
             ELSE LastResort(ChainResult(got.url, c.main_keyword, seen, FALSE),
                             top_interest, un)

\* Step 2, lines 165-170: extract_main_keywords and the places search; the
\* fetch is not in a try of its own, so its error reaches line 183.
BackupKeyword(c, activity_description, top_interest, gm, un) ==
    IF c.image_url # <<>> THEN DirectSearch(c, top_interest, un)
    ELSE LET main_keyword == extract_main_keywords(activity_description)
         IN  IF ~(main_keyword # <<>> /\ Len(main_keyword) >= MinKeywordLen)
             THEN DirectSearch(ChainResult(<<>>, <<main_keyword>>, c.trace, FALSE),
                               top_interest, un)
             ELSE LET got == fetch_image_for_keyword(main_keyword, gm[4])
                      seen == Append(c.trace, Query(2, main_keyword, gm[4]))
                  IN  IF got.raised
                      THEN ChainResult(<<>>, <<TextOf(top_interest)>>, seen, TRUE)
                      ELSE DirectSearch(
                               ChainResult(got.url, <<main_keyword>>, seen, FALSE),
                               top_interest, un)

\* Lines 136-186.  gm[1..3] is what the places search does for the three
\* extracted keywords, gm[4] for the backup keyword; un[1] and un[2] what
\* the generic search does in steps 3 and 4.
ImageChain(activity_description, top_interest, gm, un) ==
    BackupKeyword(
        KeywordLoop(extract_keywords_from_prompt(activity_description), gm, 1, <<>>),
        activity_description, top_interest, gm, un)

(***************************************************************************)
(* The user context: utils.py, get_synthetic_user.  Coordinates are kept   *)
(* as whole degrees, interest scores in hundredths; the interests keep     *)
(* the order of the dict literal, each item being <<key, score>> with the  *)
(* score <<n>>, or <<>> for None.                                          *)
(***************************************************************************)

get_synthetic_user ==
    [location |-> [lat |-> <<13>>, lon |-> <<78>>],
     interests |-> << <<"travel", <<81>>>>, <<"food", <<93>>>>,
                      <<"news", <<65>>>>, <<"shopping", <<48>>>>,
                      <<"gaming", <<76>>>> >>]

\* Python truth of an optional number: None and 0 are false.
Truthy(opt) == opt # <<>> /\ opt[1] # 0

\* Python truth of an optional string: None and "" are false.
TruthyStr(s) == s # NoneVal /\ s # ""

(***************************************************************************)
(* The place selector: utils.py, get_route_duration and choose_place.      *)
(*                                                                         *)
(* A place is [place_id, name, lat, lng, photos]: place_id is NoneVal when *)
(* the key is missing, lat and lng are geometry.location.lat / .lng, <<>>  *)
(* when missing.  The fields that only feed the prompt text (rating,       *)
(* address, vicinity) are left out.  travel_time_mins is <<m>> for m minutes and    *)
(* Unknown for the string "unknown".                                       *)
(***************************************************************************)

Unknown == <<>>

EnrichLimit == 3      \* places[:3]

\* round(duration_seconds / 60): Python rounds a half to the even integer.
RoundMinutes(seconds) ==
    LET q == seconds \div 60
        r == seconds % 60
    IN  IF r < 30 THEN q
        ELSE IF r > 30 THEN q + 1
        ELSE IF q % 2 = 0 THEN q ELSE q + 1

\* get_route_duration(origin, destination, ors_client), ors being what
\* ors_client.directions does on this call: it raises, it returns a reply
\* without features, or it returns a route with a duration in seconds.
\* The result is <<minutes>> or <<>> for None; the function's own handler
\* turns every exception into None.
get_route_duration(origin, destination, ors) ==
    IF ~(\A i \in DOMAIN origin : Truthy(origin[i]))
       \/ ~(\A i \in DOMAIN destination : Truthy(destination[i]))
    THEN <<>>
    ELSE CASE ors.kind = "raise" -> <<>>
           [] ors.kind = "nofeatures" -> <<>>
           [] ors.kind = "route" -> <<RoundMinutes(ors.duration)>>

\* Mutant: the coordinate test of the enrichment loop is dropped.
HasCoordinatesAlways(place) == TRUE

\* The enrichment loop's test: both coordinates present and non-zero.
HasCoordinates(place) == Truthy(place.lat) /\ Truthy(place.lng)

\* The entry the enrichment loop appends for places[idx - 1].
EnrichedPlace(user, place, idx, ors) ==
    LET travel_time_mins ==
            get_route_duration(<<user.location.lon, user.location.lat>>,
                               <<place.lng, place.lat>>, ors)
    IN  [prominence_rank |-> idx,
         name |-> place.name,
         travel_time_mins |-> IF Truthy(travel_time_mins)
                              THEN <<travel_time_mins[1] * 2>>
                              ELSE Unknown]

\* Mutant: the enrichment loop runs over the whole list.
EnrichCountAll(places) == Len(places)

\* len(places[:3])
EnrichCount(places) == Min(Len(places), EnrichLimit)

\* The enrichment loop from position idx on: for idx, place in
\* enumerate(places[:3]), skipping a place without coordinates.  routes[i]
\* is the routing service's behaviour for the i-th place.
RECURSIVE EnrichFrom(_, _, _, _)
EnrichFrom(user, places, routes, idx) ==
    IF idx > EnrichCount(places) THEN <<>>
    ELSE (IF HasCoordinates(places[idx])
          THEN <<EnrichedPlace(user, places[idx], idx, routes[idx])>>
          ELSE <<>>)
         \o EnrichFrom(user, places, routes, idx + 1)

\* The positions whose route is requested.
RoutedPositions(places) ==
    {i \in 1..EnrichCount(places) : HasCoordinates(places[i])}

\* Mutant: the loop keeps the last place that differs.
LastDifferent(places, previous) ==
    LET diff == {i \in DOMAIN places : places[i].place_id # previous}
    IN  IF diff = {} THEN 0 ELSE CHOOSE i \in diff : \A j \in diff : i >= j

\* The first position whose place_id differs from the recorded one, 0 when
\* there is none (the loop "for place in places").
FirstDifferent(places, previous) ==
    LET diff == {i \in DOMAIN places : places[i].place_id # previous}
    IN  IF diff = {} THEN 0 ELSE CHOOSE i \in diff : \A j \in diff : i <= j

\* Mutant: the message for an empty list is empty.
MsgNoPlacesEmpty == <<>>

\* "We couldn't find any interesting places nearby. Let's suggest an indoor activity instead."
MsgNoPlaces ==
    <<"W", "e", " ", "c", "o", "u", "l", "d", "n", "'", "t", " ", "f", "i",
      "n", "d", " ", "a", "n", "y", " ", "i", "n", "t", "e", "r", "e", "s",
      "t", "i", "n", "g", " ", "p", "l", "a", "c", "e", "s", " ", "n", "e",
      "a", "r", "b", "y", ".", " ", "L", "e", "t", "'", "s", " ", "s", "u",
      "g", "g", "e", "s", "t", " ", "a", "n", " ", "i", "n", "d", "o", "o",
      "r", " ", "a", "c", "t", "i", "v", "i", "t", "y", " ", "i", "n", "s",
      "t", "e", "a", "d", ".">>

\* "We couldn't determine your location accurately. Let's suggest an indoor activity instead."
MsgNoLocation ==
    <<"W", "e", " ", "c", "o", "u", "l", "d", "n", "'", "t", " ", "d", "e",
      "t", "e", "r", "m", "i", "n", "e", " ", "y", "o", "u", "r", " ", "l",
      "o", "c", "a", "t", "i", "o", "n", " ", "a", "c", "c", "u", "r", "a",
      "t", "e", "l", "y", ".", " ", "L", "e", "t", "'", "s", " ", "s", "u",
      "g", "g", "e", "s", "t", " ", "a", "n", " ", "i", "n", "d", "o", "o",
      "r", " ", "a", "c", "t", "i", "v", "i", "t", "y", " ", "i", "n", "s",
      "t", "e", "a", "d", ".">>

\* "We're having trouble with our navigation service. Let's suggest an indoor activity instead."
MsgNoRouting ==
    <<"W", "e", "'", "r", "e", " ", "h", "a", "v", "i", "n", "g", " ", "t",
      "r", "o", "u", "b", "l", "e", " ", "w", "i", "t", "h", " ", "o", "u",
      "r", " ", "n", "a", "v", "i", "g", "a", "t", "i", "o", "n", " ", "s",
      "e", "r", "v", "i", "c", "e", ".", " ", "L", "e", "t", "'", "s", " ",
      "s", "u", "g", "g", "e", "s", "t", " ", "a", "n", " ", "i", "n", "d",
      "o", "o", "r", " ", "a", "c", "t", "i", "v", "i", "t", "y", " ", "i",
      "n", "s", "t", "e", "a", "d", ".">>

\* "We're having trouble processing places near you. Let's suggest an indoor activity instead."
MsgNoEnriched ==
    <<"W", "e", "'", "r", "e", " ", "h", "a", "v", "i", "n", "g", " ", "t",
      "r", "o", "u", "b", "l", "e", " ", "p", "r", "o", "c", "e", "s", "s",
      "i", "n", "g", " ", "p", "l", "a", "c", "e", "s", " ", "n", "e", "a",
      "r", " ", "y", "o", "u", ".", " ", "L", "e", "t", "'", "s", " ", "s",
      "u", "g", "g", "e", "s", "t", " ", "a", "n", " ", "i", "n", "d", "o",
      "o", "r", " ", "a", "c", "t", "i", "v", "i", "t", "y", " ", "i", "n",
      "s", "t", "e", "a", "d", ".">>

\* "We encountered an unexpected error. Let's suggest an indoor activity instead."
MsgUnexpected ==
    <<"W", "e", " ", "e", "n", "c", "o", "u", "n", "t", "e", "r", "e", "d",
      " ", "a", "n", " ", "u", "n", "e", "x", "p", "e", "c", "t", "e", "d",
      " ", "e", "r", "r", "o", "r", ".", " ", "L", "e", "t", "'", "s", " ",
      "s", "u", "g", "g", "e", "s", "t", " ", "a", "n", " ", "i", "n", "d",
      "o", "o", "r", " ", "a", "c", "t", "i", "v", "i", "t", "y", " ", "i",
      "n", "s", "t", "e", "a", "d", ".">>

\* "Sorry, we had trouble generating a suggestion."
MsgNoSuggestion ==
    <<"S", "o", "r", "r", "y", ",", " ", "w", "e", " ", "h", "a", "d", " ",
      "t", "r", "o", "u", "b", "l", "e", " ", "g", "e", "n", "e", "r", "a",
      "t", "i", "n", "g", " ", "a", " ", "s", "u", "g", "g", "e", "s", "t",
      "i", "o", "n", ".">>

\* What choose_place returns and leaves behind: place is <<>> for None or
\* <<the chosen place>>, index its position in places (0 for None),
\* previous_place_id the session key after the call; enriched, routed and
\* llm_called record what the call did on the way.
ChooseResult(place, index, description, previous, enriched, routed, llm_called) ==
    [place |-> place, index |-> index, description |-> description,
     previous_place_id |-> previous, enriched |-> enriched,
     routed |-> routed, llm_called |-> llm_called]

\* Mutant: the selection always returns the first place.
SelectIndexFirst(places, user_feedback, previous) == 1

\* The position choose_place selects once the description is generated.
SelectIndex(places, user_feedback, previous) ==
    IF TruthyStr(user_feedback) /\ previous # <<>>
       /\ FirstDifferent(places, previous[1]) # 0
    THEN FirstDifferent(places, previous[1])
    ELSE 1

\* Mutant: the selected place's id is not recorded.
RecordPreviousKeep(places, index, previous) == previous

\* st.session_state.previous_place_id = place.get("place_id")
RecordPrevious(places, index, previous) == <<places[index].place_id>>

\* choose_place(user, places, model, user_feedback).  previous is the
\* session key previous_place_id, ors_client the session key ors_client,
\* routes the routing service's behaviour per position, llm the generative
\* model's behaviour: [kind |-> "raise"] or [kind |-> "text", text |-> t].
choose_place(user, places, llm, user_feedback, previous, ors_client, routes) ==
    IF places = <<>>
    THEN ChooseResult(<<>>, 0, MsgNoPlaces, previous, <<>>, {}, FALSE)
    ELSE IF ~Truthy(user.location.lat) \/ ~Truthy(user.location.lon)
    THEN ChooseResult(<<>>, 0, MsgNoLocation, previous, <<>>, {}, FALSE)
    ELSE IF ~ors_client
    THEN ChooseResult(<<>>, 0, MsgNoRouting, previous, <<>>, {}, FALSE)
    ELSE LET enriched_places == EnrichFrom(user, places, routes, 1)
             routed == RoutedPositions(places)
         IN  IF enriched_places = <<>>
             THEN ChooseResult(<<>>, 0, MsgNoEnriched, previous,
                               enriched_places, routed, FALSE)
             ELSE IF llm.kind = "raise"
             THEN ChooseResult(<<>>, 0, MsgUnexpected, previous,
                               enriched_places, routed, TRUE)
             ELSE LET description == Strip(llm.text)
                      index == SelectIndex(places, user_feedback, previous)
                  IN  ChooseResult(<<places[index]>>, index, description,
                                   RecordPrevious(places, index, previous),
                                   enriched_places, routed, TRUE)

(***************************************************************************)
(* The preference store on its own: update_preferences_from_feedback       *)
(* applied to a bounded choice of stored profiles.                         *)
(***************************************************************************)

MaxFeedback == 2      \* feedback calls explored after the starting profile

FeedbackKinds == {"like", "dislike", "view_details"}

\* item_data["type"] as the callers pass it: the recommendation's
\* activity_type, a category key or the string "activity" (app.py 271, 292).
FeedbackTypes == {"food", "travel", "activity"}

\* Scores a profile can hold: the multiples of 0.05 between 0.1 and 1.0 are
\* all reached from 0.5 by likes, dislikes and views; these are the ones at
\* and next to the two clamps, and the initial one.
SeedScores == {ScoreMin, ScoreMin + ViewStep, InitialScore,
               ScoreMax - ViewStep, ScoreMax}

\* A history list of n earlier items, oldest first, named 1..n.
SeedHistory(n) == [i \in 1..n |-> [name |-> i, type |-> "food"]]

SeedLengths == {0, MaxHistory - 1, MaxHistory}

SeedProfiles ==
    {[category_preferences |->
          [c \in Categories |-> CASE c = "food" -> f
                                  [] c = "travel" -> t
                                  [] OTHER -> InitialScore],
      liked_places |-> SeedHistory(nl),
      disliked_places |-> SeedHistory(nd)] :
        f \in SeedScores, t \in SeedScores, nl \in SeedLengths, nd \in SeedLengths}

\* The item of the next feedback call: a fresh name, the given type.
FreshItem(type) == [name |-> 100 + fb_count, type |-> type]

IdlePrefs ==
    /\ user_preferences = <<>>
    /\ fb_prev = <<>>
    /\ fb_call = <<>>
    /\ fb_count = 0

\* The place selector's state when no call has been made.
IdlePlace ==
    /\ previous_place_id = <<>>
    /\ place_list = <<>>
    /\ cp_last = <<>>
    /\ cp_prev = <<>>

\* The image chain's record when it has not run.
IdleImage == chain_run = <<>>

\* No helper has been called on its own.
IdleHelpers ==
    /\ ti_last = <<>>
    /\ ti_prev = <<>>
    /\ kw_run = <<>>

\* st.session_state once the initialisation block has run (app.py lines
\* 58-85): user_feedback is None, errors is the empty list, and the keys the
\* recommendation cycle creates are missing.
FreshSession ==
    [user_feedback |-> <<NoneVal>>,
     errors |-> << <<>> >>,
     top_interest |-> <<>>,
     activity_type |-> <<>>,
     last_short_response |-> <<>>,
     recommendation_data |-> <<>>,
     recommendation_shown |-> <<>>]

\* What a script run leaves in last_run: the handler it ran, the flow a
\* recommendation cycle took, whether it ended in an uncaught exception,
\* what choose_place returned when the cycle called it (<<>> if not), and
\* whether the cycle called top_activity_interest_llm.
RunRecord(handler, flow, uncaught, chosen, computed) ==
    [handler |-> handler, flow |-> flow, uncaught |-> uncaught,
     chosen |-> chosen, computed |-> computed]

\* The script before its first run.
IdleApp ==
    /\ session_state = FreshSession
    /\ last_run = RunRecord("none", "none", FALSE, <<>>, FALSE)

InitPrefs ==
    /\ user_preferences \in {<<>>} \cup {<<p>> : p \in SeedProfiles}
    /\ fb_prev = <<>>
    /\ fb_call = <<>>
    /\ fb_count = 0
    /\ IdlePlace
    /\ IdleImage
    /\ IdleApp
    /\ IdleHelpers

\* One call of update_preferences_from_feedback(kind, item).
RecordFeedback(kind, item) ==
    /\ fb_prev' = user_preferences
    /\ fb_call' = <<[kind |-> kind, item |-> item]>>
    /\ fb_count' = fb_count + 1
    /\ user_preferences' =
           <<update_preferences_from_feedback(user_preferences, kind, item)>>

Feedback ==
    /\ fb_count < MaxFeedback
    /\ \E kind \in FeedbackKinds, type \in FeedbackTypes :
           RecordFeedback(kind, FreshItem(type))
    /\ UNCHANGED <<placeVars, chain_run, appVars, helperVars>>

NextPrefs == Feedback

SpecPrefs == InitPrefs /\ [][NextPrefs]_vars


(***************************************************************************)
(* The place selector on its own: choose_place called repeatedly on one    *)
(* candidate list, as the outdoor flow does cycle after cycle.             *)
(***************************************************************************)

MaxPlaces == 4        \* longest candidate list

\* A result of the places search; photos is the first photo_reference, <<>>
\* when the place has no photos.
Place(place_id, name, lat, lng, photos) ==
    [place_id |-> place_id, name |-> name, lat |-> lat, lng |-> lng,
     photos |-> photos]

\* Candidates the places search can return: three with distinct ids and
\* coordinates, one without a latitude, one without a longitude.  (A
\* coordinate of exactly 0 would count as missing in HasCoordinates; the
\* search around the user's fixed location returns none.)
PlacePool ==
    {Place("a", "Cafe X", <<13>>, <<78>>, <<"photo-a">>),
     Place("b", "Cafe Y", <<13>>, <<78>>, <<>>),
     Place("c", "Cafe Z", <<13>>, <<78>>, <<"photo-c">>),
     Place("a", "Cafe X", <<>>, <<78>>, <<"photo-a">>),
     Place("b", "Cafe Y", <<13>>, <<>>, <<>>)}

\* The candidate lists: up to MaxPlaces different candidates in any order.
PlaceLists ==
    {list \in UNION {[1..n -> PlacePool] : n \in 0..MaxPlaces} :
        \A i, j \in DOMAIN list : i # j => list[i] # list[j]}

\* What ors_client.directions can do on a call: raise, answer without
\* features, answer with a route of 20 s or of 420 s.
OrsOutcomes ==
    {[kind |-> "raise", duration |-> 0],
     [kind |-> "nofeatures", duration |-> 0],
     [kind |-> "route", duration |-> 20],
     [kind |-> "route", duration |-> 420]}

\* The routing behaviour for every position: position p gets the outcome
\* ors, every other position a route of 420 s.
RoutesFor(list, p, ors) ==
    [i \in DOMAIN list |->
        IF i = p THEN ors ELSE [kind |-> "route", duration |-> 420]]

\* " Cafe X fits. "
PlaceReply ==
    <<" ", "C", "a", "f", "e", " ", "X", " ", "f", "i", "t", "s", ".", " ">>

\* What model.generate_content can do: raise, or answer with a text.
PlaceLlmOutcomes ==
    {[kind |-> "raise", text |-> <<>>], [kind |-> "text", text |-> PlaceReply]}

\* app.py line 335.
FeedbackNote ==
    "The user did not like the previous suggestion. Please provide a completely different recommendation."

\* The id an earlier cycle may have recorded, on another candidate list,
\* when the list of this session holds at most one candidate.
EarlierIds(list) == IF Len(list) <= 1 THEN {<<>>, <<"c">>} ELSE {<<>>}

InitPlace ==
    /\ place_list \in PlaceLists
    /\ previous_place_id \in EarlierIds(place_list)
    /\ cp_last = <<>>
    /\ cp_prev = <<>>
    /\ IdlePrefs
    /\ IdleImage
    /\ IdleApp
    /\ IdleHelpers

\* One call choose_place(user, places, model, user_feedback).
CallChoosePlace(user_feedback, llm, routes) ==
    \E r \in {choose_place(get_synthetic_user, place_list, llm, user_feedback,
                          previous_place_id, TRUE, routes)} :
        /\ previous_place_id' = r.previous_place_id
        /\ cp_prev' = IF cp_last = <<>> THEN <<>>
                      ELSE <<[index |-> cp_last[1].index]>>
        /\ cp_last' = <<[user_feedback |-> user_feedback,
                         previous_before |-> previous_place_id,
                         llm |-> llm.kind,
                         routes |-> routes,
                         place |-> r.place,
                         index |-> r.index,
                         description |-> r.description,
                         enriched |-> r.enriched,
                         routed |-> r.routed,
                         llm_called |-> r.llm_called]>>
        /\ UNCHANGED place_list

ChoosePlace ==
    /\ \E user_feedback \in {NoneVal, FeedbackNote}, llm \in PlaceLlmOutcomes,
          p \in 1..EnrichLimit, ors \in OrsOutcomes :
           CallChoosePlace(user_feedback, llm, RoutesFor(place_list, p, ors))
    /\ UNCHANGED <<prefVars, chain_run, appVars, helperVars>>

NextPlace == ChoosePlace

SpecPlace == InitPlace /\ [][NextPlace]_vars


(***************************************************************************)
(* The image chain on its own: every behaviour of the two image services   *)
(* on the descriptions below.                                              *)
(***************************************************************************)

\* Replies of the generative model to the indoor prompt (response.text):
\* one with a vocabulary term, one whose longest word is the keyword, one
\* with no word of four letters, and a blank one.
\* " Play chess now! "
ReplyChess ==
    <<" ", "P", "l", "a", "y", " ", "c", "h", "e", "s", "s", " ", "n", "o",
      "w", "!", " ">>
\* "Try origami"
ReplyOrigami ==
    <<"T", "r", "y", " ", "o", "r", "i", "g", "a", "m", "i">>
\* "Go jog"
ReplyJog ==
    <<"G", "o", " ", "j", "o", "g">>
\* " "
ReplyBlank ==
    <<" ">>

IndoorReplies == {ReplyChess, ReplyOrigami, ReplyJog, ReplyBlank}

ChainInterests == {"food", "gaming"}

\* Line 200: main_keyword if main_keyword else top_interest.
ReportedKeyword(c, top_interest) ==
    IF c.main_keyword # <<>> /\ c.main_keyword[1] # <<>>
    THEN c.main_keyword[1]
    ELSE TextOf(top_interest)

\* A recommendation_data dict.  place and keyword are <<>> when the key is
\* missing, image_url is <<>> for None; a name is kept as the pieces of its
\* f-string.
Recommendation(type, place, name, description, image_url, activity_type, keyword) ==
    [type |-> type, place |-> place, name |-> name,
     description |-> description, image_url |-> image_url,
     activity_type |-> activity_type, keyword |-> keyword]

\* Lines 194-201 and 254-261.
IndoorRecommendation(top_interest, activity_description, image_url, keyword) ==
    Recommendation("indoor", <<>>, <<"Indoor ", top_interest, " Activity">>,
                   activity_description, image_url, top_interest, keyword)

InitImage ==
    /\ chain_run = <<>>
    /\ IdlePrefs
    /\ IdlePlace
    /\ IdleApp
    /\ IdleHelpers

\* One run of lines 132-201 after the description is generated.
RunChain ==
    /\ chain_run = <<>>
    /\ \E reply \in IndoorReplies, top_interest \in ChainInterests,
          gm \in [1..4 -> ImageOutcomes], un \in [1..2 -> ImageOutcomes] :
          \E c \in {ImageChain(Strip(reply), top_interest, gm, un)} :
              chain_run' = <<[activity_description |-> Strip(reply),
                              top_interest |-> top_interest,
                              gm |-> gm,
                              un |-> un,
                              image_url |-> c.image_url,
                              keyword |-> ReportedKeyword(c, top_interest),
                              recommendation |->
                                  IndoorRecommendation(top_interest,
                                      Strip(reply), c.image_url,
                                      <<ReportedKeyword(c, top_interest)>>),
                              trace |-> c.trace,
                              aborted |-> c.aborted]>>
    /\ UNCHANGED <<prefVars, placeVars, appVars, helperVars>>

NextImage == RunChain

SpecImage == InitImage /\ [][NextImage]_vars


(***************************************************************************)
(* The script of app.py.  A script run is one action: the recommendation   *)
(* cycle of lines 101-294 when recommendation_shown is missing or false,   *)
(* or the handler of the button that was clicked.                          *)
(*                                                                         *)
(* The cycle is computed on a run state s: the keys of session_state,      *)
(* previous_place_id, the flow taken, and raised, which is TRUE while an   *)
(* exception is propagating.  The key previous_feedback only drives an     *)
(* st.info line and is left out.                                           *)
(***************************************************************************)

\* Mutant: on equal scores the later item wins.
FirstMaxLast(items) ==
    CHOOSE i \in DOMAIN items :
        /\ \A j \in DOMAIN items : items[j][2][1] <= items[i][2][1]
        /\ \A j \in (i + 1)..Len(items) : items[j][2][1] < items[i][2][1]

\* max(interests.items(), key=lambda x: x[1]): the position of the first
\* item of maximal score.
FirstMax(items) ==
    CHOOSE i \in DOMAIN items :
        /\ \A j \in DOMAIN items : items[j][2][1] <= items[i][2][1]
        /\ \A j \in 1..(i - 1) : items[j][2][1] < items[i][2][1]

\* max raises TypeError as soon as it compares a None score, which it does
\* whenever there are two items or more.
MaxRaises(items) ==
    Len(items) > 1 /\ \E i \in DOMAIN items : items[i][2] = <<>>

\* Mutant: the fallback is returned whatever the interests are.
TopInterestAlwaysFood(user) == "food"

\* top_activity_interest_llm(user).  user is a record, or <<>> for None or
\* an empty dict; the key interests may be missing.  Every exception is
\* caught and gives "food".
top_activity_interest_llm(user) ==
    IF user = <<>> THEN "food"
    ELSE IF "interests" \notin DOMAIN user THEN "food"
    ELSE IF user.interests = <<>> THEN "food"
    ELSE IF MaxRaises(user.interests) THEN "food"
    ELSE IF Len(user.interests) = 1 THEN user.interests[1][1]
    ELSE user.interests[FirstMax(user.interests)][1]

\* "indoor"
Indoor == <<"i", "n", "d", "o", "o", "r">>

\* "Try a fun indoor activity related to your interests!"
IndoorFallbackText ==
    <<"T", "r", "y", " ", "a", " ", "f", "u", "n", " ", "i", "n", "d", "o",
      "o", "r", " ", "a", "c", "t", "i", "v", "i", "t", "y", " ", "r", "e",
      "l", "a", "t", "e", "d", " ", "t", "o", " ", "y", "o", "u", "r", " ",
      "i", "n", "t", "e", "r", "e", "s", "t", "s", "!">>

\* "We recommend trying something fun related to your interests!"
OutdoorFallbackText ==
    <<"W", "e", " ", "r", "e", "c", "o", "m", "m", "e", "n", "d", " ", "t",
      "r", "y", "i", "n", "g", " ", "s", "o", "m", "e", "t", "h", "i", "n",
      "g", " ", "f", "u", "n", " ", "r", "e", "l", "a", "t", "e", "d", " ",
      "t", "o", " ", "y", "o", "u", "r", " ", "i", "n", "t", "e", "r", "e",
      "s", "t", "s", "!">>

\* "Try something relaxing or fun based on your interests!"
CycleFallbackText ==
    <<"T", "r", "y", " ", "s", "o", "m", "e", "t", "h", "i", "n", "g", " ",
      "r", "e", "l", "a", "x", "i", "n", "g", " ", "o", "r", " ", "f", "u",
      "n", " ", "b", "a", "s", "e", "d", " ", "o", "n", " ", "y", "o", "u",
      "r", " ", "i", "n", "t", "e", "r", "e", "s", "t", "s", "!">>

\* Lines 228-235.
OutdoorRecommendation(top_interest, selected_place, description, image_url) ==
    Recommendation("outdoor", <<selected_place>>, <<selected_place.name>>,
                   description, image_url, top_interest, <<>>)

\* Lines 205-211.
IndoorFallback(top_interest) ==
    Recommendation("indoor", <<>>, <<"Indoor Activity Suggestion">>,
                   IndoorFallbackText, <<>>, top_interest, <<>>)

\* Lines 266-272.
OutdoorFallback ==
    Recommendation("indoor", <<>>, <<"Activity Suggestion">>,
                   OutdoorFallbackText, <<>>, "activity", <<>>)

\* Lines 287-293.
CycleFallback ==
    Recommendation("indoor", <<>>, <<"Activity Suggestion">>,
                   CycleFallbackText, <<>>, "activity", <<>>)

\* fetch_places(user, interest_type, key), gmaps being what places_nearby
\* does: it never raises, an error gives [].
fetch_places(user, gmaps) ==
    IF ~Truthy(user.location.lat) \/ ~Truthy(user.location.lon) THEN <<>>
    ELSE IF gmaps.kind = "raise" THEN <<>>
    ELSE gmaps.results

\* fetch_place_image(place, key): None without photos, else the photo's url.
fetch_place_image(place) ==
    IF place.photos = <<>> THEN <<>>
    ELSE <<[source |-> "photo", query |-> place.photos]>>

\* The run state at the start of a script run.
RunState(session, previous) ==
    [user_feedback |-> session.user_feedback,
     errors |-> session.errors,
     top_interest |-> session.top_interest,
     activity_type |-> session.activity_type,
     last_short_response |-> session.last_short_response,
     recommendation_data |-> session.recommendation_data,
     recommendation_shown |-> session.recommendation_shown,
     previous_place_id |-> previous,
     flow |-> "none",
     chosen |-> <<>>,
     computed |-> FALSE,
     raised |-> FALSE]

\* The session keys of a run state.
SessionOf(s) ==
    [user_feedback |-> s.user_feedback,
     errors |-> s.errors,
     top_interest |-> s.top_interest,
     activity_type |-> s.activity_type,
     last_short_response |-> s.last_short_response,
     recommendation_data |-> s.recommendation_data,
     recommendation_shown |-> s.recommendation_shown]

\* st.session_state.errors.append(message) in an except block: the
\* attribute access raises AttributeError when the key errors is missing.
AppendError(s, message) ==
    IF s.errors = <<>> THEN [s EXCEPT !.raised = TRUE]
    ELSE [s EXCEPT !.errors = <<Append(s.errors[1], message)>>]

\* Mutant: every cycle computes the top interest anew.
TopInterestStageAnew(s, user) ==
    [s EXCEPT !.top_interest = <<top_activity_interest_llm(user)>>,
              !.computed = TRUE]

\* Lines 104-114: the top interest is computed once and kept in the session.
TopInterestStage(s, user) ==
    IF s.top_interest # <<>> THEN s
    ELSE [s EXCEPT !.top_interest = <<top_activity_interest_llm(user)>>,
                   !.computed = TRUE]

\* Lines 116-126: the indoor/outdoor decision; reply is what the generative
\* model does, [kind |-> "raise"] or [kind |-> "text", text |-> t].
DecisionStage(s, reply) ==
    IF reply.kind = "raise"
    THEN AppendError([s EXCEPT !.activity_type = <<Indoor>>],
                     "Error choosing activity type")
    ELSE [s EXCEPT !.activity_type = <<Lower(Strip(reply.text))>>]


\* Lines 129-212, the indoor flow: llm is what the generative model does on
\* the indoor prompt, gm and un what the two image services do.  Reading
\* st.session_state.user_feedback raises when the key is missing.
IndoorFlow(s, llm, gm, un) ==
    LET top_interest == s.top_interest[1]
        entered == [s EXCEPT !.flow = "indoor"]
    IN  IF s.user_feedback = <<>> \/ llm.kind = "raise"
        THEN AppendError([entered EXCEPT !.recommendation_data =
                                             <<IndoorFallback(top_interest)>>],
                         "Error creating indoor suggestion")
        ELSE LET activity_description == Strip(llm.text)
                 c == ImageChain(activity_description, top_interest, gm, un)
             IN  [entered EXCEPT
                     !.last_short_response = <<activity_description>>,
                     !.recommendation_data =
                         <<IndoorRecommendation(top_interest,
                               activity_description, c.image_url,
                               <<ReportedKeyword(c, top_interest)>>)>>]

\* Lines 262-273: the outdoor flow's handler.
OutdoorEmergency(s) ==
    AppendError([s EXCEPT !.recommendation_data = <<OutdoorFallback>>],
                "Error creating outdoor suggestion")

IndoorInsteadSkipped(s, indoor_llm, gm) == s

\* Lines 238-259: the outdoor flow falls back to an indoor suggestion.
IndoorInstead(s, indoor_llm, gm) ==
    IF indoor_llm.kind = "raise" THEN OutdoorEmergency(s)
    ELSE LET top_interest == s.top_interest[1]
             activity_description == Strip(indoor_llm.text)
             main_keyword == extract_main_keywords(activity_description)
             fetched == fetch_image_for_keyword(main_keyword, gm)
             image_url == IF fetched.raised THEN <<>> ELSE fetched.url
         IN  [s EXCEPT
                 !.last_short_response = <<activity_description>>,
                 !.recommendation_data =
                     <<IndoorRecommendation(top_interest, activity_description,
                                            image_url, <<main_keyword>>)>>]

\* What the cycle keeps of a choose_place call: the pair returned, the
\* number of enriched places, whether the generative model was called and
\* the previous_place_id the call found.
Chosen(r, previous) ==
    [place |-> r.place, description |-> r.description,
     enriched |-> Len(r.enriched), llm_called |-> r.llm_called,
     previous_before |-> previous]

\* Lines 214-273, the outdoor flow: gmaps is what the places search does,
\* llm and routes what the generative model and the routing service do
\* inside choose_place, indoor_llm and gm serve the indoor fallback.
OutdoorFlow(s, user, gmaps, llm, routes, indoor_llm, gm) ==
    LET top_interest == s.top_interest[1]
        entered == [s EXCEPT !.flow = "outdoor"]
        places == fetch_places(user, gmaps)
    IN  IF s.user_feedback = <<>> THEN OutdoorEmergency(entered)
        ELSE LET r == choose_place(user, places, llm, s.user_feedback[1],
                                   s.previous_place_id, TRUE, routes)
                 chosen == [entered EXCEPT
                               !.previous_place_id = r.previous_place_id,
                               !.chosen = <<Chosen(r, s.previous_place_id)>>]
             IN  IF r.place # <<>>
                 THEN [chosen EXCEPT
                          !.recommendation_data =
                              <<OutdoorRecommendation(top_interest, r.place[1],
                                    r.description,
                                    fetch_place_image(r.place[1]))>>,
                          !.last_short_response = <<r.description>>]
                 ELSE IndoorInstead(chosen, indoor_llm, gm)

\* Lines 275-280: the feedback note is used up and the suggestion is marked
\* as shown; skipped while an exception propagates.
FinishCycle(s) ==
    IF s.raised THEN s
    ELSE IF s.user_feedback = <<>> THEN [s EXCEPT !.raised = TRUE]
    ELSE [s EXCEPT
             !.user_feedback = IF TruthyStr(s.user_feedback[1])
                               THEN <<NoneVal>> ELSE s.user_feedback,
             !.recommendation_shown = <<TRUE>>]

\* Lines 282-294: the handler around the whole cycle.  Its first statement
\* is an errors.append, so with errors missing the exception leaves the
\* script.
CycleHandler(s) ==
    IF ~s.raised THEN s
    ELSE IF s.errors = <<>> THEN s
    ELSE [s EXCEPT
             !.raised = FALSE,
             !.errors = <<Append(s.errors[1], "Unexpected error")>>,
             !.recommendation_data = <<CycleFallback>>,
             !.recommendation_shown = <<TRUE>>]

\* item_data of the three feedback buttons (lines 318-321, 329-332, 342-345).
ItemData(data) == [name |-> data.name, type |-> data.activity_type]

\* Reset All (lines 411-413): every key but the clients, the model and
\* initialized is deleted.
ClearedSession ==
    [user_feedback |-> <<>>,
     errors |-> <<>>,
     top_interest |-> <<>>,
     activity_type |-> <<>>,
     last_short_response |-> <<>>,
     recommendation_data |-> <<>>,
     recommendation_shown |-> <<>>]


(***************************************************************************)
(* The session: script runs from the first one on, the collaborators       *)
(* answering or failing in every way below.                                *)
(***************************************************************************)

MaxClicks == 1        \* feedback buttons clicked in a session
MaxErrors == 2        \* messages the errors list can hold

\* " Outdoor\n"
ReplyOutdoor ==
    <<" ", "O", "u", "t", "d", "o", "o", "r", "\n">>
\* "Indoor."
ReplyIndoorDot ==
    <<"I", "n", "d", "o", "o", "r", ".">>

\* What the generative model does on the decision prompt.
DecisionReplies ==
    {[kind |-> "raise", text |-> <<>>],
     [kind |-> "text", text |-> Indoor],
     [kind |-> "text", text |-> ReplyOutdoor],
     [kind |-> "text", text |-> ReplyIndoorDot]}

\* What it does on the indoor prompt.
IndoorLlmOutcomes ==
    {[kind |-> "raise", text |-> <<>>], [kind |-> "text", text |-> ReplyChess]}

\* What places_nearby does: raise, two places, or one place without a
\* latitude.
PlacesOutcomes ==
    {[kind |-> "raise", results |-> <<>>],
     [kind |-> "results",
      results |-> <<Place("a", "Cafe X", <<13>>, <<78>>, <<"photo-a">>),
                    Place("b", "Cafe Y", <<13>>, <<78>>, <<>>)>>],
     [kind |-> "results",
      results |-> <<Place("a", "Cafe X", <<>>, <<78>>, <<"photo-a">>)>>]}

\* An image service that behaves the same way on every call.
Always(n, outcome) == [i \in 1..n |-> outcome]

\* The suggestion and the feedback buttons are on the page: the last run
\* got past the cycle and found recommendation_data (line 297).
SuggestionDisplayed ==
    /\ session_state.recommendation_shown = <<TRUE>>
    /\ session_state.recommendation_data # <<>>

\* The script also reached the errors expander and the sidebar.
PageComplete == SuggestionDisplayed /\ ~last_run.uncaught

InitApp ==
    /\ IdlePrefs
    /\ IdlePlace
    /\ IdleImage
    /\ IdleApp
    /\ IdleHelpers

\* The end of a cycle: lines 275-294, then the run state is the session.
EndCycle(s) ==
    \E finished \in {FinishCycle(s)} : \E e \in {CycleHandler(finished)} :
        /\ session_state' = SessionOf(e)
        /\ previous_place_id' = e.previous_place_id
        /\ last_run' = RunRecord("cycle", e.flow, e.raised, e.chosen,
                                e.computed)

\* A script run with recommendation_shown missing or false (line 101).
RunCycle ==
    /\ session_state.recommendation_shown \in {<<>>, <<FALSE>>}
    /\ session_state.errors # <<>> =>
           Len(session_state.errors[1]) + 2 <= MaxErrors
    /\ \E reply \in DecisionReplies :
        \E d \in {DecisionStage(
                      TopInterestStage(RunState(session_state, previous_place_id),
                                       get_synthetic_user), reply)} :
           \/ /\ d.raised
              /\ EndCycle(d)
           \/ /\ ~d.raised
              /\ d.activity_type[1] = Indoor
              /\ \E llm \in IndoorLlmOutcomes,
                    g \in ImageOutcomes, u \in ImageOutcomes :
                  \E s \in {IndoorFlow(d, llm, Always(4, g), Always(2, u))} :
                     EndCycle(s)
           \/ /\ ~d.raised
              /\ d.activity_type[1] # Indoor
              /\ \E gmaps \in PlacesOutcomes, llm \in PlaceLlmOutcomes,
                    indoor_llm \in IndoorLlmOutcomes, g \in ImageOutcomes :
                  \E s \in {OutdoorFlow(d, get_synthetic_user, gmaps, llm,
                                         RoutesFor(gmaps.results, 1,
                                             [kind |-> "route", duration |-> 420]),
                                         indoor_llm, g)} :
                     EndCycle(s)
    /\ UNCHANGED <<prefVars, place_list, cp_last, cp_prev, chain_run, helperVars>>

\* "I like it!" (lines 316-324).
Like ==
    /\ SuggestionDisplayed
    /\ fb_count < MaxClicks
    /\ RecordFeedback("like", ItemData(session_state.recommendation_data[1]))
    /\ last_run' = RunRecord("like", "none", FALSE, <<>>, FALSE)
    /\ UNCHANGED <<session_state, placeVars, chain_run, helperVars>>

\* "Show me something else" (lines 327-337).
Dislike ==
    /\ SuggestionDisplayed
    /\ fb_count < MaxClicks
    /\ RecordFeedback("dislike", ItemData(session_state.recommendation_data[1]))
    /\ session_state' = [session_state EXCEPT
                            !.user_feedback = <<FeedbackNote>>,
                            !.recommendation_shown = <<FALSE>>]
    /\ last_run' = RunRecord("dislike", "none", FALSE, <<>>, FALSE)
    /\ UNCHANGED <<placeVars, chain_run, helperVars>>

\* "Tell me more" (lines 340-355): reading last_short_response raises when
\* no cycle has stored a description.
TellMeMore ==
    /\ SuggestionDisplayed
    /\ fb_count < MaxClicks
    /\ RecordFeedback("view_details",
                      ItemData(session_state.recommendation_data[1]))
    /\ last_run' = RunRecord("view_details", "none",
                             session_state.last_short_response = <<>>,
                             <<>>, FALSE)
    /\ UNCHANGED <<session_state, placeVars, chain_run, helperVars>>

\* "Clear Errors" (lines 358-365).
ClearErrors ==
    /\ PageComplete
    /\ session_state.errors # <<>>
    /\ session_state.errors[1] # <<>>
    /\ session_state' = [session_state EXCEPT !.errors = << <<>> >>]
    /\ last_run' = RunRecord("clear_errors", "none", FALSE, <<>>, FALSE)
    /\ UNCHANGED <<prefVars, placeVars, chain_run, helperVars>>

\* "Reset Suggestion" (lines 400-406).
ResetSuggestion ==
    /\ PageComplete
    /\ session_state' = [session_state EXCEPT
                            !.recommendation_shown = <<>>,
                            !.recommendation_data = <<>>]
    /\ last_run' = RunRecord("reset_suggestion", "none", FALSE, <<>>, FALSE)
    /\ UNCHANGED <<prefVars, placeVars, chain_run, helperVars>>

\* "Reset All" (lines 409-414): user_preferences and previous_place_id are
\* session keys too.
ResetAll ==
    /\ PageComplete
    /\ session_state' = ClearedSession
    /\ user_preferences' = <<>>
    /\ previous_place_id' = <<>>
    /\ last_run' = RunRecord("reset_all", "none", FALSE, <<>>, FALSE)
    /\ UNCHANGED <<fb_prev, fb_call, fb_count, place_list, cp_last, cp_prev,
                   chain_run, helperVars>>

Next ==
    \/ RunCycle
    \/ Like
    \/ Dislike
    \/ TellMeMore
    \/ ClearErrors
    \/ ResetSuggestion
    \/ ResetAll

Spec == InitApp /\ [][Next]_vars


(***************************************************************************)
(* top_activity_interest_llm on its own: one call on a user context drawn  *)
(* from the set below, then the same call repeated.                        *)
(***************************************************************************)

MaxInterests == 3     \* most items in an interests dict

InterestKeys == {"food", "travel", "news", "gaming"}

\* Scores an item can carry: None, 0.3 and 0.9.
InterestScores == {<<>>, <<30>>, <<90>>}

\* The interests dicts: up to MaxInterests items with different keys, in
\* any order.
InterestMaps ==
    {m \in UNION {[1..n -> InterestKeys \X InterestScores] :
                      n \in 0..MaxInterests} :
        \A i, j \in DOMAIN m : i # j => m[i][1] # m[j][1]}

\* The user contexts: None, one without the key interests, and one for
\* each interests dict.
InterestUsers ==
    {<<>>, [location |-> [lat |-> <<13>>, lon |-> <<78>>]]}
    \cup {[location |-> [lat |-> <<13>>, lon |-> <<78>>], interests |-> m] :
              m \in InterestMaps}

InitInterest ==
    /\ IdleHelpers
    /\ IdlePrefs
    /\ IdlePlace
    /\ IdleImage
    /\ IdleApp

\* top_activity_interest_llm(user) on a user context.
CallTopInterest ==
    /\ ti_last = <<>>
    /\ \E user \in InterestUsers :
           ti_last' = <<[user |-> user,
                         result |-> top_activity_interest_llm(user)]>>
    /\ UNCHANGED <<ti_prev, kw_run, prefVars, placeVars, chain_run, appVars>>

\* The same call once more.
RepeatTopInterest ==
    /\ ti_last # <<>>
    /\ ti_prev = <<>>
    /\ ti_prev' = <<ti_last[1].result>>
    /\ ti_last' = <<[user |-> ti_last[1].user,
                     result |-> top_activity_interest_llm(ti_last[1].user)]>>
    /\ UNCHANGED <<kw_run, prefVars, placeVars, chain_run, appVars>>

NextInterest == CallTopInterest \/ RepeatTopInterest

SpecInterest == InitInterest /\ [][NextInterest]_vars


(***************************************************************************)
(* extract_main_keywords on its own: one call on a text drawn from the set *)
(* below.                                                                  *)
(***************************************************************************)

MaxTextLen == 5       \* longest text built from TextAlphabet

\* The letters of the vocabulary term "tea", a capital, a digit and a blank.
TextAlphabet == {"t", "e", "a", "T", "1", " "}

\* "rate tree"
TextRateTree ==
    <<"r", "a", "t", "e", " ", "t", "r", "e", "e">>

\* "Try origami art1 level5boss"
TextLevels ==
    <<"T", "r", "y", " ", "o", "r", "i", "g", "a", "m", "i", " ", "a", "r",
      "t", "1", " ", "l", "e", "v", "e", "l", "5", "b", "o", "s", "s">>

\* "A board game or chess"
TextBoardGame ==
    <<"A", " ", "b", "o", "a", "r", "d", " ", "g", "a", "m", "e", " ", "o",
      "r", " ", "c", "h", "e", "s", "s">>

\* "Art or tea"
TextArtTea ==
    <<"A", "r", "t", " ", "o", "r", " ", "t", "e", "a">>

\* The texts: every text of up to MaxTextLen characters of the alphabet,
\* and a few longer ones.
KeywordTexts ==
    UNION {[1..n -> TextAlphabet] : n \in 0..MaxTextLen}
    \cup {TextRateTree, TextLevels, TextBoardGame, TextArtTea,
          Strip(ReplyChess)}

InitKeywords ==
    /\ IdleHelpers
    /\ IdlePrefs
    /\ IdlePlace
    /\ IdleImage
    /\ IdleApp

\* extract_main_keywords(text) on a text.
CallExtractMainKeywords ==
    /\ kw_run = <<>>
    /\ \E text \in KeywordTexts :
           kw_run' = <<[text |-> text, result |-> extract_main_keywords(text)]>>
    /\ UNCHANGED <<ti_last, ti_prev, prefVars, placeVars, chain_run, appVars>>

NextKeywords == CallExtractMainKeywords

SpecKeywords == InitKeywords /\ [][NextKeywords]_vars

(***************************************************************************)
(* Properties of the preference store.                                     *)
(***************************************************************************)

\* The profile the last feedback call started from and the one it stored.
FbBefore == get_user_preferences_db(fb_prev)
FbAfter == user_preferences[1]
FbKind == fb_call[1].kind
FbItem == fb_call[1].item

\* C1: after a feedback call on a category c that is a key of the category
\* scores, the score of c is min(1.0, previous + 0.1) for a like,
\* max(0.1, previous - 0.1) for a dislike and min(1.0, previous + 0.05) for
\* a view-details, and every other category keeps its score.
C1_ScoreUpdate ==
    (fb_call # <<>> /\ FbItem.type \in DOMAIN FbBefore.category_preferences) =>
        LET before == FbBefore.category_preferences
            after == FbAfter.category_preferences
            c == FbItem.type
            expected == CASE FbKind = "like" ->
                                IF before[c] + 10 < 100 THEN before[c] + 10 ELSE 100
                          [] FbKind = "dislike" ->
                                IF before[c] - 10 > 10 THEN before[c] - 10 ELSE 10
                          [] FbKind = "view_details" ->
                                IF before[c] + 5 < 100 THEN before[c] + 5 ELSE 100
        IN  /\ DOMAIN after = DOMAIN before
            /\ after[c] = expected
            /\ \A d \in DOMAIN before \ {c} : after[d] = before[d]

\* C1 witness: a like on "food" at 0.95 was clamped to 1.0 while "travel"
\* kept a different score.
C1_Witness ==
    /\ fb_call # <<>>
    /\ FbKind = "like"
    /\ FbItem.type = "food"
    /\ FbBefore.category_preferences["food"] = 95
    /\ FbAfter.category_preferences["food"] = 100
    /\ FbAfter.category_preferences["travel"] = 15

\* C2: likedItems and dislikedItems never hold more than 20 entries, a like
\* (dislike) appends its item as the last entry of the liked (disliked)
\* list and leaves the other list alone, and an insertion into a full list
\* drops exactly the first-inserted entry: entries 2..20 move up one place
\* in their order and the new item is the 20th.
C2_HistoryFifo ==
    /\ user_preferences # <<>> =>
          /\ Len(FbAfter.liked_places) <= 20
          /\ Len(FbAfter.disliked_places) <= 20
    /\ fb_call # <<>> =>
          LET Fifo(old, new, inserted) ==
                  IF ~inserted THEN new = old
                  ELSE IF Len(old) < 20
                       THEN new = old \o <<FbItem>>
                       ELSE /\ Len(new) = 20
                            /\ new[20] = FbItem
                            /\ \A i \in 1..19 : new[i] = old[i + 1]
                            /\ \A i \in 1..20 : new[i] # old[1]
          IN  /\ Fifo(FbBefore.liked_places, FbAfter.liked_places, FbKind = "like")
              /\ Fifo(FbBefore.disliked_places, FbAfter.disliked_places,
                      FbKind = "dislike")

\* C2 witness: the 21st insertion into the liked list has happened: the list
\* was full, the first-inserted entry (named 1) is gone and the new item is
\* the last.
C2_Witness ==
    /\ fb_call # <<>>
    /\ FbKind = "like"
    /\ Len(FbBefore.liked_places) = 20
    /\ FbBefore.liked_places[1].name = 1
    /\ FbAfter.liked_places[1].name = 2
    /\ FbAfter.liked_places[20] = FbItem

(***************************************************************************)
(* Properties of the place selector.                                       *)
(***************************************************************************)

CpLast == cp_last[1]
CpSucceeded == cp_last # <<>> /\ CpLast.index # 0
DistinctIds(list) == {list[i].place_id : i \in DOMAIN list}

\* C4: when choose_place succeeds twice in a row on the same candidate list
\* and the second call carries a feedback note, the second call returns a
\* candidate whose id differs from the first call's if the list holds at
\* least two distinct ids, and the same (only) candidate if the list holds
\* a single candidate.
C4_DifferentOnFeedback ==
    (/\ CpSucceeded
     /\ cp_prev # <<>>
     /\ cp_prev[1].index # 0
     /\ CpLast.user_feedback = FeedbackNote) =>
        /\ Cardinality(DistinctIds(place_list)) >= 2 =>
              place_list[CpLast.index].place_id
                  # place_list[cp_prev[1].index].place_id
        /\ Len(place_list) = 1 =>
              /\ CpLast.index = cp_prev[1].index
              /\ CpLast.place = <<place_list[1]>>

\* C4 witness: on a list whose first two candidates have ids "a" and "b",
\* a successful call returned the first and the next, with the feedback
\* note, returned the second.
C4_Witness ==
    /\ CpSucceeded
    /\ cp_prev # <<>>
    /\ cp_prev[1].index = 1
    /\ CpLast.user_feedback = FeedbackNote
    /\ CpLast.index = 2
    /\ place_list[1].place_id = "a"
    /\ place_list[2].place_id = "b"

\* C8: a successful choose_place without a feedback note, or with a note
\* and no previous_place_id recorded, returns the first candidate of the
\* list; and after every successful call previous_place_id is the id of
\* the candidate returned.
C8_FirstAndRecorded ==
    CpSucceeded =>
        /\ (CpLast.user_feedback = NoneVal \/ CpLast.previous_before = <<>>) =>
              /\ CpLast.index = 1
              /\ CpLast.place = <<place_list[1]>>
        /\ CpLast.place # <<>>
        /\ previous_place_id = <<CpLast.place[1].place_id>>
        /\ CpLast.place[1] = place_list[CpLast.index]

\* C8 witness: a call without a note succeeded while the id "b" was
\* recorded, returned the first candidate, whose id is "a", and "a" is
\* now recorded.
C8_Witness ==
    /\ CpSucceeded
    /\ CpLast.user_feedback = NoneVal
    /\ CpLast.previous_before = <<"b">>
    /\ CpLast.index = 1
    /\ previous_place_id = <<"a">>

\* C10: the enriched list holds exactly the candidates among the first 3 of
\* the input list that have both coordinates, in input order, each with
\* the 1-based position it has in the input list as its rank.
C10_EnrichFirstThree ==
    (cp_last # <<>> /\ place_list # <<>>) =>
        LET e == CpLast.enriched
            kept == {i \in DOMAIN place_list :
                        /\ i <= 3
                        /\ place_list[i].lat # <<>>
                        /\ place_list[i].lng # <<>>}
        IN  /\ {e[k].prominence_rank : k \in DOMAIN e} = kept
            /\ Len(e) = Cardinality(kept)
            /\ \A k \in DOMAIN e :
                  e[k].name = place_list[e[k].prominence_rank].name
            /\ \A k \in DOMAIN e : \A m \in DOMAIN e :
                  k < m => e[k].prominence_rank < e[m].prominence_rank

\* C10 witness: a list of four whose first candidate has no latitude and
\* whose other three have coordinates was enriched to the candidates of
\* rank 2 and 3.
C10_Witness ==
    /\ cp_last # <<>>
    /\ Len(place_list) = 4
    /\ place_list[1].lat = <<>>
    /\ \A i \in 2..4 : place_list[i].lat # <<>> /\ place_list[i].lng # <<>>
    /\ Len(CpLast.enriched) = 2
    /\ CpLast.enriched[1].prominence_rank = 2
    /\ CpLast.enriched[2].prominence_rank = 3

(***************************************************************************)
(* Properties of the image chain.                                          *)
(***************************************************************************)

ChainRun == chain_run[1]
ChainSteps == {ChainRun.trace[k].step : k \in DOMAIN ChainRun.trace}

\* C5: a raising collaborator never ends the chain: after a places query
\* of step 1 or step 2 has raised, unless a places query then finds an
\* image, step 3 is attempted and, if that gives no image, step 4.
C5_FailureNeverAborts ==
    chain_run # <<>> =>
        \A k \in DOMAIN ChainRun.trace :
            (/\ ChainRun.trace[k].step \in {1, 2}
             /\ ChainRun.trace[k].outcome = "raise"
             /\ \A m \in DOMAIN ChainRun.trace :
                   ChainRun.trace[m].step \in {1, 2} =>
                       ChainRun.trace[m].outcome # "url") =>
                /\ 3 \in ChainSteps
                /\ ChainRun.image_url = <<>> => 4 \in ChainSteps

\* C9: the queries are made in the order of the steps, no query follows one
\* that produced an image, the image reported is the one the last query
\* produced and the keyword reported is that query's keyword; whenever
\* step 4 runs the keyword reported is the interest category.
C9_StopAtFirstImage ==
    chain_run # <<>> =>
        LET tr == ChainRun.trace
        IN  /\ \A k \in DOMAIN tr : k < Len(tr) =>
                  /\ tr[k].outcome # "url"
                  /\ tr[k].step <= tr[k + 1].step
            /\ ChainRun.image_url # <<>> =>
                  /\ tr # <<>>
                  /\ tr[Len(tr)].outcome = "url"
                  /\ ChainRun.image_url[1].query = tr[Len(tr)].query
                  /\ ChainRun.keyword = tr[Len(tr)].query
            /\ 4 \in ChainSteps => ChainRun.keyword = TextOf(ChainRun.top_interest)

\* C9 witness: on "Play chess now!" the three keyword queries and the
\* backup query found nothing, the generic search found an image for
\* "chess" in step 3, and nothing was queried after it.
C9_Witness ==
    /\ chain_run # <<>>
    /\ Len(ChainRun.trace) = 5
    /\ ChainRun.trace[4].step = 2
    /\ ChainRun.trace[5].step = 3
    /\ ChainRun.trace[5].outcome = "url"
    /\ ChainRun.keyword = <<"c", "h", "e", "s", "s">>
    /\ ChainRun.image_url = <<[source |-> "search", query |-> ChainRun.keyword]>>


\* C11: for each enriched candidate, whenever the routing service returns a
\* duration of d minutes (0 included) travel_time_mins is 2*d; it is
\* "unknown" exactly when the routing call fails or returns nothing; and a
\* routing failure removes no candidate from the batch.
C11_TravelTimeDoubled ==
    cp_last # <<>> =>
        /\ {e.prominence_rank : e \in Range(CpLast.enriched)} = CpLast.routed
        /\ \A e \in Range(CpLast.enriched) :
               LET ors == CpLast.routes[e.prominence_rank]
               IN  IF ors.kind = "route"
                   THEN e.travel_time_mins = <<2 * RoundMinutes(ors.duration)>>
                   ELSE e.travel_time_mins = Unknown

\* C17: choose_place called with an empty candidate list returns no place
\* and a non-empty message, calls neither the routing service nor the
\* generative model, and leaves previous_place_id as it was.
C17_EmptyList ==
    (cp_last # <<>> /\ place_list = <<>>) =>
        /\ CpLast.place = <<>>
        /\ CpLast.description # <<>>
        /\ CpLast.routed = {}
        /\ CpLast.enriched = <<>>
        /\ ~CpLast.llm_called
        /\ previous_place_id = CpLast.previous_before

\* C17 witness: a call on the empty list while an id is recorded.
C17_Witness ==
    /\ cp_last # <<>>
    /\ place_list = <<>>
    /\ CpLast.previous_before = <<"c">>
    /\ previous_place_id = <<"c">>
    /\ CpLast.place = <<>>

\* C16: when no step of the chain yields an image, whether the services
\* return nothing or raise, the chain ends without an image and with the
\* interest category as the keyword, and the indoor recommendation is still
\* produced with the generated description.
C16_NoImageKeepsDescription ==
    (/\ chain_run # <<>>
     /\ \A k \in DOMAIN ChainRun.trace : ChainRun.trace[k].outcome # "url") =>
        /\ ChainRun.image_url = <<>>
        /\ ChainRun.keyword = TextOf(ChainRun.top_interest)
        /\ ChainRun.recommendation.type = "indoor"
        /\ ChainRun.recommendation.description = ChainRun.activity_description
        /\ ChainRun.recommendation.image_url = <<>>
        /\ ChainRun.recommendation.keyword = <<TextOf(ChainRun.top_interest)>>

\* C16 witness: on "Play chess now!" a places query raised, the others and
\* both generic searches returned nothing, and all four steps ran.
C16_Witness ==
    /\ chain_run # <<>>
    /\ ChainRun.activity_description = Strip(ReplyChess)
    /\ ChainSteps = {1, 2, 3, 4}
    /\ \E k \in DOMAIN ChainRun.trace : ChainRun.trace[k].outcome = "raise"
    /\ \E k \in DOMAIN ChainRun.trace : ChainRun.trace[k].outcome = "none"
    /\ \A k \in DOMAIN ChainRun.trace : ChainRun.trace[k].outcome # "url"
    /\ ChainRun.recommendation.description = Strip(ReplyChess)
    /\ ChainRun.image_url = <<>>

\* "chess"
Chess == <<"c", "h", "e", "s", "s">>

\* C14: for every generated text that contains "chess", when the keyword
\* extraction service fails and every image service but the generic search
\* yields no image (it returns nothing or fails), the chain returns the
\* generic search's url together with the keyword "chess".
C14_ChessFromGenericSearch ==
    (/\ chain_run # <<>>
     /\ Contains(Lower(ChainRun.activity_description), Chess)
     /\ \A i \in DOMAIN ChainRun.gm : ChainRun.gm[i] # "url"
     /\ ChainRun.un[1] = "url") =>
        /\ ChainRun.image_url = <<[source |-> "search", query |-> Chess]>>
        /\ ChainRun.keyword = Chess

(***************************************************************************)
(* Properties of top_activity_interest_llm.                                *)
(***************************************************************************)

TiUser == ti_last[1].user
TiResult == ti_last[1].result

\* The call was made on a user context with a non-empty interests dict.
TiHasInterests ==
    /\ ti_last # <<>>
    /\ TiUser # <<>>
    /\ "interests" \in DOMAIN TiUser
    /\ TiUser.interests # <<>>

\* Every score of the dict is a number.
TiNumeric == \A i \in DOMAIN TiUser.interests : TiUser.interests[i][2] # <<>>

\* C12: for every non-empty interest map the selection returns a category
\* whose score is maximal in the map, and when several categories share the
\* maximal score it returns the one met first in the map's order.
C12_FirstMaximal ==
    (TiHasInterests /\ TiNumeric) =>
        \E i \in DOMAIN TiUser.interests :
            /\ TiUser.interests[i][1] = TiResult
            /\ \A j \in DOMAIN TiUser.interests :
                   TiUser.interests[j][2][1] <= TiUser.interests[i][2][1]
            /\ \A j \in 1..(i - 1) :
                   TiUser.interests[j][2][1] < TiUser.interests[i][2][1]

\* A call on a map where the maximal score is shared and the first of the
\* sharing categories is not the first item.
C12_Witness ==
    /\ TiHasInterests
    /\ TiNumeric
    /\ \E i, j \in DOMAIN TiUser.interests :
           /\ 1 < i
           /\ i < j
           /\ TiUser.interests[i][1] = TiResult
           /\ TiUser.interests[i][2] = TiUser.interests[j][2]
           /\ TiUser.interests[1][2][1] < TiUser.interests[i][2][1]

KwText == kw_run[1].text
KwResult == kw_run[1].result

\* The positions of the vocabulary terms that occur in the lower-cased text.
KwTerms == {k \in DOMAIN all_keywords : Contains(Lower(KwText), all_keywords[k])}

\* The result is the longest vocabulary term in the text, the first one in
\* vocabulary order on a tie.
KwLongestTerm ==
    \E k \in KwTerms :
        /\ KwResult = all_keywords[k]
        /\ \A m \in KwTerms : Len(all_keywords[m]) <= Len(all_keywords[k])
        /\ \A m \in KwTerms :
               m < k => Len(all_keywords[m]) < Len(all_keywords[k])

\* The maximal runs of letters of at least MinWordLen characters, as pairs
\* of positions.
KwAlphaRuns ==
    {r \in (DOMAIN KwText) \X (DOMAIN KwText) :
        /\ r[2] - r[1] + 1 >= MinWordLen
        /\ \A k \in r[1]..r[2] : IsAlpha(KwText[k])
        /\ r[1] = 1 \/ ~IsAlpha(KwText[r[1] - 1])
        /\ r[2] = Len(KwText) \/ ~IsAlpha(KwText[r[2] + 1])}

\* Those of the runs that are whole words: no digit or underscore touches
\* them.
KwWords ==
    {r \in KwAlphaRuns :
        /\ r[1] = 1 \/ KwText[r[1] - 1] \notin Digits \cup {"_"}
        /\ r[2] = Len(KwText) \/ KwText[r[2] + 1] \notin Digits \cup {"_"}}

\* The result is the longest of the runs, the first one on a tie.
KwLongestOf(runs) ==
    \E r \in runs :
        /\ KwResult = SubSeq(KwText, r[1], r[2])
        /\ \A q \in runs : q[2] - q[1] <= r[2] - r[1]
        /\ \A q \in runs : q[1] < r[1] => q[2] - q[1] < r[2] - r[1]

\* C15 as stated: the longest vocabulary term of the lower-cased text, the
\* first in vocabulary order on a tie; without a term, the longest
\* alphabetic run of at least four characters; without one, or for the
\* empty text, "indoor activity"; and never an empty keyword.
C15_AlphabeticRun ==
    kw_run # <<>> =>
        /\ KwResult # <<>>
        /\ IF KwTerms # {} THEN KwLongestTerm
           ELSE IF KwAlphaRuns # {} THEN KwLongestOf(KwAlphaRuns)
           ELSE KwResult = IndoorActivity

\* C15 amended: as above, but the fallback is the longest whole word of at
\* least four letters (a run of letters that no digit or underscore
\* touches), the first one on a tie.
C15_WholeWord ==
    kw_run # <<>> =>
        /\ KwResult # <<>>
        /\ IF KwTerms # {} THEN KwLongestTerm
           ELSE IF KwWords # {} THEN KwLongestOf(KwWords)
           ELSE KwResult = IndoorActivity

\* A text without a vocabulary term whose only run of four letters touches
\* a digit: the result is "indoor activity".
C15_Witness ==
    /\ kw_run # <<>>
    /\ KwTerms = {}
    /\ KwAlphaRuns # {}
    /\ KwWords = {}
    /\ KwResult = IndoorActivity

(***************************************************************************)
(* Properties of the session.                                              *)
(***************************************************************************)

\* "outdoor"
Outdoor == <<"o", "u", "t", "d", "o", "o", "r">>

\* The recommendation of the session, when there is one.
Data == session_state.recommendation_data[1]

\* C3: in a recommendation cycle the outdoor path is taken only when the
\* classifier's trimmed, lower-cased response is exactly "outdoor"; every
\* other response ("indoor.", any unexpected text) leads to the indoor path.
\* After a cycle that reached a flow, activity_type holds that response.
C3_OutdoorOnlyOnOutdoor ==
    (last_run.handler = "cycle" /\ last_run.flow # "none") =>
        (last_run.flow = "outdoor" <=> session_state.activity_type = <<Outdoor>>)

\* C6: from every session state the user actions can reach, and whatever
\* the collaborators do, a started cycle runs to completion: it ends with a
\* recommendation stored and marked as shown, never in an uncaught error.
C6_CycleCompletes ==
    last_run.handler = "cycle" =>
        /\ ~last_run.uncaught
        /\ session_state.recommendation_data # <<>>
        /\ session_state.recommendation_shown = <<TRUE>>

\* C7: every static fallback recommendation (its description is one of the
\* fixed generic strings) has no image and the category "activity".
C7_StaticFallback ==
    (/\ session_state.recommendation_data # <<>>
     /\ Data.description \in
            {IndoorFallbackText, OutdoorFallbackText, CycleFallbackText}) =>
        /\ Data.image_url = <<>>
        /\ Data.activity_type = "activity"

\* What choose_place returned in the last cycle.
LastChosen == last_run.chosen[1]

\* C18: when the cycle's choose_place call came back without a place, after
\* a failed call of the generative model or with no enriched place, it
\* returned a non-empty message, previous_place_id still has the value the
\* call found, the run did not end in an exception and the suggestion
\* stored is of type indoor.
C18_FailureGivesIndoor ==
    (/\ last_run.handler = "cycle"
     /\ last_run.chosen # <<>>
     /\ LastChosen.place = <<>>
     /\ (LastChosen.llm_called \/ LastChosen.enriched = 0)) =>
        /\ LastChosen.description # <<>>
        /\ previous_place_id = LastChosen.previous_before
        /\ ~last_run.uncaught
        /\ session_state.recommendation_data # <<>>
        /\ Data.type = "indoor"

\* The generative model failed inside choose_place with a place recorded
\* from an earlier cycle.
C18_Witness ==
    /\ last_run.handler = "cycle"
    /\ last_run.chosen # <<>>
    /\ LastChosen.place = <<>>
    /\ LastChosen.llm_called
    /\ LastChosen.enriched > 0
    /\ LastChosen.previous_before # <<>>
    /\ previous_place_id = LastChosen.previous_before
    /\ Data.type = "indoor"

\* A history list after one more item: the item is last, and the oldest
\* entry has left a list that was full.
WithItem(list, item) ==
    IF Len(list) < MaxHistory THEN Append(list, item)
    ELSE Append(Tail(list), item)

\* C19: a feedback call whose item category is not a key of the category
\* scores leaves the scores as they were, keys included; a like appends the
\* item to the liked list and a dislike to the disliked list, the other
\* list staying as it was; a view-details leaves the whole profile as it
\* was.
C19_UnknownCategory ==
    (fb_call # <<>> /\ FbItem.type \notin DOMAIN FbBefore.category_preferences) =>
        /\ FbAfter.category_preferences = FbBefore.category_preferences
        /\ FbKind = "like" =>
               /\ FbAfter.liked_places = WithItem(FbBefore.liked_places, FbItem)
               /\ FbAfter.disliked_places = FbBefore.disliked_places
        /\ FbKind = "dislike" =>
               /\ FbAfter.disliked_places =
                      WithItem(FbBefore.disliked_places, FbItem)
               /\ FbAfter.liked_places = FbBefore.liked_places
        /\ FbKind = "view_details" => FbAfter = FbBefore

\* C19 witness: a dislike of an "activity" item on a full disliked list put
\* the item last and left scores that differ from the initial ones alone.
C19_Witness ==
    /\ fb_call # <<>>
    /\ FbKind = "dislike"
    /\ FbItem.type = "activity"
    /\ Len(FbBefore.disliked_places) = MaxHistory
    /\ FbAfter.disliked_places[MaxHistory] = FbItem
    /\ FbAfter.category_preferences["food"] = ScoreMin
    /\ FbAfter.category_preferences = FbBefore.category_preferences

\* The candidate list holds three or more candidates, all with different
\* ids.
ThreeDistinct ==
    /\ Len(place_list) >= 3
    /\ Cardinality(DistinctIds(place_list)) = Len(place_list)

\* C20: on a list of three or more candidates with different ids, a
\* successful choose_place call with a feedback note returns the first or
\* the second candidate, and when the call before it succeeded too it
\* returns the other one of the two.
C20_AlternatesFirstSecond ==
    (CpSucceeded /\ CpLast.user_feedback = FeedbackNote /\ ThreeDistinct) =>
        /\ CpLast.index \in {1, 2}
        /\ (cp_prev # <<>> /\ cp_prev[1].index # 0) =>
               CpLast.index = 3 - cp_prev[1].index

\* C20 witness: with three candidates of different ids a call with the
\* feedback note came back to the first candidate after the second.
C20_Witness ==
    /\ CpSucceeded
    /\ ThreeDistinct
    /\ CpLast.user_feedback = FeedbackNote
    /\ cp_prev # <<>>
    /\ cp_prev[1].index = 2
    /\ CpLast.index = 1
    /\ CpLast.previous_before = <<place_list[2].place_id>>

\* C21: whenever choose_place returns a candidate, it is one of the
\* enriched candidates of the prompt: its position is among the first
\* three of the list and it has both coordinates.
C21_ReturnedIsEnriched ==
    CpSucceeded =>
        /\ CpLast.index <= EnrichLimit
        /\ HasCoordinates(place_list[CpLast.index])
        /\ CpLast.index \in {e.prominence_rank : e \in Range(CpLast.enriched)}

\* C22: a script run changes a top interest the session holds only when it
\* is Reset All, which deletes it; a recommendation cycle calls
\* top_activity_interest_llm exactly when the session holds none, and
\* leaves one stored.  So likes, dislikes and views, and the cycles after
\* them, keep the top interest of the first cycle.
C22_TopInterestKept ==
    [][/\ (/\ session_state.top_interest # <<>>
           /\ session_state'.top_interest # session_state.top_interest) =>
              /\ last_run'.handler = "reset_all"
              /\ session_state'.top_interest = <<>>
       /\ last_run'.handler = "cycle" =>
              /\ last_run'.computed <=> session_state.top_interest = <<>>
              /\ session_state'.top_interest # <<>>]_vars

\* C22 witness: a cycle after a "Show me something else" click reused the
\* top interest of the first cycle while the scores of the profile had
\* changed.
C22_Witness ==
    /\ last_run.handler = "cycle"
    /\ ~last_run.computed
    /\ session_state.top_interest = <<"food">>
    /\ fb_call # <<>>
    /\ FbKind = "dislike"
    /\ FbAfter.category_preferences # FbBefore.category_preferences

====
